---- MODULE Spec2Model ----
(***************************************************************************)
(* A model of src/main.py: the /analyze/ endpoint of the RFP / proposal    *)
(* eligibility analyzer, and the text splitter load_document configures.   *)
(*                                                                         *)
(* Scheduling.  analyze is an `async def` whose body holds no await, and   *)
(* the program is served by one uvicorn process (main.py:184-186), so the  *)
(* event loop runs one request body at a time: a request's steps are never *)
(* interleaved with another request's.  Requests are numbered in the order *)
(* in which the event loop starts them.                                    *)
(*                                                                         *)
(* Libraries.  PyPDFLoader, the embedding service, the completion service  *)
(* and FAISS are outside the repository.  A call into them either returns  *)
(* or raises; which exception it raises, and with what text, is chosen by  *)
(* the library, so it is a nondeterministic choice here.  The embedding of *)
(* a text is a function of the text (Embed).                               *)
(***************************************************************************)
EXTENDS Integers, Sequences, FiniteSets, TLC

(***************************************************************************)
(* Bounds of the model and constants of the program.                       *)
(***************************************************************************)
NReq == 2
MaxLen == 5
SmallChunkSize == 3

chunk_size == 1024
chunk_overlap == 0
k == 20

Requests == 1..NReq

SP == " "
NL == "\n"
Whitespace == {SP, NL}
Alphabet == {"a", "b", SP, NL}

(***************************************************************************)
(* RecursiveCharacterTextSplitter(chunk_size, chunk_overlap), as           *)
(* load_document configures it: the default separators, keep_separator     *)
(* and strip_whitespace.  A text is a sequence of characters.              *)
(***************************************************************************)
separators == << <<NL, NL>>, <<NL>>, <<SP>>, <<>> >>

RECURSIVE Flatten(_)
Flatten(ss) == IF ss = <<>> THEN <<>> ELSE Head(ss) \o Flatten(Tail(ss))

RECURSIVE lstrip(_)
lstrip(t) == IF t # <<>> /\ Head(t) \in Whitespace THEN lstrip(Tail(t)) ELSE t

RECURSIVE rstrip(_)
rstrip(t) ==
    IF t # <<>> /\ t[Len(t)] \in Whitespace THEN rstrip(SubSeq(t, 1, Len(t) - 1)) ELSE t

strip(t) == rstrip(lstrip(t))

MatchAt(t, sep, i) ==
    /\ i + Len(sep) - 1 <= Len(t)
    /\ SubSeq(t, i, i + Len(sep) - 1) = sep

Contains(t, sep) == \E i \in 1..Len(t) : MatchAt(t, sep, i)

\* re.split on the leftmost non-overlapping occurrences of sep
RECURSIVE re_split(_, _, _, _)
re_split(t, sep, i, cur) ==
    IF i > Len(t) THEN <<cur>>
    ELSE IF MatchAt(t, sep, i) THEN <<cur>> \o re_split(t, sep, i + Len(sep), <<>>)
    ELSE re_split(t, sep, i + 1, Append(cur, t[i]))

\* keep_separator: each separator stays at the start of the piece after it
split_text_with_regex(t, separator) ==
    LET pieces == IF separator = <<>>
                  THEN [i \in 1..Len(t) |-> <<t[i]>>]
                  ELSE LET raw == re_split(t, separator, 1, <<>>)
                       IN  [i \in 1..Len(raw) |->
                               IF i = 1 THEN raw[1] ELSE separator \o raw[i]]
    IN  SelectSeq(pieces, LAMBDA s : s # <<>>)

\* strip_whitespace: the joined pieces are stripped, and an empty result is dropped
join_docs(docs) ==
    LET joined == strip(Flatten(docs))
    IN  IF joined = <<>> THEN <<>> ELSE <<joined>>

RECURSIVE SumLen(_)
SumLen(ds) == IF ds = <<>> THEN 0 ELSE Len(Head(ds)) + SumLen(Tail(ds))

\* a splitter that keeps the last piece of the emitted chunk for the next one
pop_overlap_keep_last(current_doc, len, size, overlap) ==
    IF current_doc = <<>> THEN <<>> ELSE <<current_doc[Len(current_doc)]>>

RECURSIVE pop_overlap(_, _, _, _)
pop_overlap(current_doc, len, size, overlap) ==
    LET total == SumLen(current_doc)
    IN  IF total > overlap \/ (total + len > size /\ total > 0)
        THEN pop_overlap(Tail(current_doc), len, size, overlap)
        ELSE current_doc

RECURSIVE merge_splits(_, _, _, _, _)
merge_splits(splits, idx, current_doc, size, overlap) ==
    IF idx > Len(splits) THEN join_docs(current_doc)
    ELSE LET d == splits[idx]
             total == SumLen(current_doc)
         IN  IF total + Len(d) > size /\ current_doc # <<>>
             THEN join_docs(current_doc)
                  \o merge_splits(splits, idx + 1,
                        Append(pop_overlap(current_doc, Len(d), size, overlap), d),
                        size, overlap)
             ELSE merge_splits(splits, idx + 1, Append(current_doc, d), size, overlap)

PickSeparator(t, seps) ==
    CHOOSE i \in 1..Len(seps) :
        /\ seps[i] = <<>> \/ Contains(t, seps[i])
        /\ \A j \in 1..(i - 1) : seps[j] # <<>> /\ ~Contains(t, seps[j])

RECURSIVE split_text_rec(_, _, _, _)
RECURSIVE split_loop(_, _, _, _, _, _)
split_loop(splits, idx, good, new_separators, size, overlap) ==
    LET flush == IF good # <<>> THEN merge_splits(good, 1, <<>>, size, overlap) ELSE <<>>
    IN  IF idx > Len(splits) THEN flush
        ELSE IF Len(splits[idx]) < size
             THEN split_loop(splits, idx + 1, Append(good, splits[idx]),
                             new_separators, size, overlap)
             ELSE flush
                  \o (IF new_separators = <<>> THEN <<splits[idx]>>
                      ELSE split_text_rec(splits[idx], new_separators, size, overlap))
                  \o split_loop(splits, idx + 1, <<>>, new_separators, size, overlap)

split_text_rec(t, seps, size, overlap) ==
    LET i == PickSeparator(t, seps)
        separator == seps[i]
        new_separators == IF separator = <<>> THEN <<>>
                          ELSE SubSeq(seps, i + 1, Len(seps))
    IN  split_loop(split_text_with_regex(t, separator), 1, <<>>,
                   new_separators, size, overlap)

split_text(t, size, overlap) == split_text_rec(t, separators, size, overlap)

\* split_documents: every page of the loaded PDF is split on its own
RECURSIVE split_documents(_, _, _)
split_documents(pages, size, overlap) ==
    IF pages = <<>> THEN <<>>
    ELSE split_text(Head(pages), size, overlap)
         \o split_documents(Tail(pages), size, overlap)

\* load_document, when PyPDFLoader returns the pages of the upload
load_document(pages) == split_documents(pages, chunk_size, chunk_overlap)

(***************************************************************************)
(* The embedding service and the FAISS index.  An index is the sequence of *)
(* (chunk, vector) pairs in insertion order; a text's vector is the sum of *)
(* its characters' codes and the distance is the squared difference.       *)
(***************************************************************************)
Code(c) == CASE c = "a" -> 1 [] c = "b" -> 3 [] OTHER -> 0

RECURSIVE Embed(_)
Embed(t) == IF t = <<>> THEN 0 ELSE Code(Head(t)) + Embed(Tail(t))

RFP_QUERY == "eligibility criteria"
PROPOSAL_QUERY == "company background and qualifications"
EmbedQuery(q) == IF q = RFP_QUERY THEN 2 ELSE 3

Distance(v, w) == (v - w) * (v - w)

\* FAISS.from_documents: one pair per chunk, in order
from_documents(docs) ==
    [i \in 1..Len(docs) |-> [page_content |-> docs[i], vector |-> Embed(docs[i])]]

\* an index build that adds to the index already at the location
create_vector_db_merge(docs, old) == old \o from_documents(docs)

\* create_vector_db(docs, path): the index built from docs alone; `old` is the
\* index persisted at path before the call, which the function never reads
create_vector_db(docs, old) == from_documents(docs)

\* a save that adds the new pairs to the index already at the location
save_local_append(db, old) == old \o db

\* db.save_local(path): the index at path becomes db, whatever was there (`old`)
save_local(db, old) == db

\* insertion of a pair into a nearest-first list, after the pairs at equal distance
RECURSIVE InsertByDistance(_, _, _)
InsertByDistance(p, sorted, qv) ==
    IF sorted = <<>> THEN <<p>>
    ELSE IF Distance(p.vector, qv) < Distance(Head(sorted).vector, qv)
         THEN <<p>> \o sorted
         ELSE <<Head(sorted)>> \o InsertByDistance(p, Tail(sorted), qv)

RECURSIVE SortByDistance(_, _)
SortByDistance(pairs, qv) ==
    IF pairs = <<>> THEN <<>>
    ELSE InsertByDistance(pairs[Len(pairs)],
                          SortByDistance(SubSeq(pairs, 1, Len(pairs) - 1), qv), qv)

Min(x, y) == IF x < y THEN x ELSE y

\* db.similarity_search(query, k): the chunks of the k nearest pairs, nearest first
similarity_search(db, query, kk) ==
    LET sorted == SortByDistance(db, EmbedQuery(query))
    IN  [i \in 1..Min(kk, Len(sorted)) |-> sorted[i].page_content]

(***************************************************************************)
(* Configuration.                                                          *)
(***************************************************************************)
CheckedSettings ==
    {"AZURE_OPENAI_API_KEY", "AZURE_OPENAI_ENDPOINT", "AZURE_OPENAI_CHAT_DEPLOYMENT_NAME"}
AllSettings == CheckedSettings \cup {"AZURE_OPENAI_API_VERSION"}

(***************************************************************************)
(* Exceptions and the responses of the endpoint.                           *)
(***************************************************************************)
Msgs == {"m1", "m2"}
ValueErrorClasses == {"ValueError", "OutputParserException", "ValidationError"}

Exc(cls, msg) == [cls |-> cls, msg |-> msg]

\* what the document loader may raise
LoaderErrors ==
    {Exc("ValueError", m) : m \in Msgs} \cup {Exc("FileNotFoundError", m) : m \in Msgs}
    \cup {Exc("Exception", m) : m \in Msgs}
\* what a call to the embedding or completion service may raise
ServiceErrors == {Exc("Exception", m) : m \in Msgs}

NoResponse == [kind |-> "none", status_code |-> 0, detail |-> "", content |-> <<>>]
HTTPException(status, detail) ==
    [kind |-> "error", status_code |-> status, detail |-> detail, content |-> <<>>]
JSONResponse(content) ==
    [kind |-> "result", status_code |-> 200, detail |-> "", content |-> content]

ConfigErrorResponse ==
    HTTPException(500, "Azure OpenAI settings are not properly configured")

\* a handler that answers a failure with what it has so far
HandleException_partial(e) == JSONResponse(<<>>)

\* the except clauses of analyze, in order
HandleException(e) ==
    IF e.cls = "FileNotFoundError" THEN HTTPException(404, "File not found")
    ELSE IF e.cls \in ValueErrorClasses THEN HTTPException(400, e.msg)
    ELSE HTTPException(500, "An unexpected error occurred: " \o e.msg)

\* a handler that runs the failed step again
PcAfterRaise_retry(step) == step

\* raising HTTPException ends the request
PcAfterRaise(step) == "done"

(***************************************************************************)
(* The comparator's output.  A raw completion is either text that is not   *)
(* JSON, or a JSON object whose eligibility_criteria list is `value`.      *)
(***************************************************************************)
Verdict(c, met, why) == [criterion |-> c, eligibility_met |-> met, reason |-> why]
RawResponses ==
    { [json |-> FALSE, value |-> <<>>],
      [json |-> TRUE, value |-> <<Verdict("c1", "Yes", "r1"), Verdict("c2", "No", "r2")>>],
      [json |-> TRUE, value |-> <<Verdict("c1", "Maybe", "r1")>>],
      [json |-> TRUE, value |-> <<[criterion |-> "c1", eligibility_met |-> "Yes"]>>] }

\* the fields EligibilityCriterion declares, all required
RequiredFields == {"criterion", "eligibility_met", "reason"}
NoAnalysis == [type |-> "none", value |-> <<>>]
\* JsonOutputParser: the parsed JSON as a plain dict, never checked against
\* pydantic_object; text that is not JSON raises OutputParserException
ParseOk(raw) == raw.json
JsonOutputParser_parse(raw) == [type |-> "dict", value |-> raw.value]
\* analysis.dict(): only a pydantic model has the method
HasDictMethod(a) == a.type = "BaseModel"

ExtractOutputs == {"criteria text"}

(***************************************************************************)
(* Uploads and storage locations.                                          *)
(***************************************************************************)
PageA == <<"a">>
PageB == <<"b", SP>>
RfpNames == {"x.pdf", "y.pdf"}
ProposalNames == {"p.pdf"}
RfpContents == {<<>>, <<PageA>>, <<PageB, PageA>>}
ProposalContents == {<<PageB, PageA>>}
Upload(name, pages) == [filename |-> name, pages |-> pages]
NoUpload == Upload("", <<>>)
RfpUploads == {Upload(n, c) : n \in RfpNames, c \in RfpContents}
ProposalUploads == {Upload(n, c) : n \in ProposalNames, c \in ProposalContents}

Sides == {"rfp", "proposal"}
Path(side, filename) ==
    (IF side = "rfp" THEN "vectorstore/RFP/" ELSE "vectorstore/Proposals/") \o filename
Locations == {Path("rfp", n) : n \in RfpNames} \cup {Path("proposal", n) : n \in ProposalNames}

StepOrder == <<"load_rfp", "index_rfp", "load_proposal", "index_proposal",
               "query_rfp", "query_proposal", "extract", "compare", "respond">>

NoFrame == [rfp_docs |-> <<>>, rfp_db |-> <<>>, proposal_docs |-> <<>>,
            proposal_db |-> <<>>, rfp_content |-> <<>>, proposal_content |-> <<>>,
            ref_eligibility |-> "", analysis |-> NoAnalysis]

(***************************************************************************)
(* State.                                                                  *)
(*   environ     the settings present in the process environment           *)
(*   pc          each request's position in analyze                        *)
(*   files       each request's two uploads                                *)
(*   frame       each request's local variables                            *)
(*   response    what each request returned to its caller                  *)
(*   store       the index persisted at each location (<<>>: none)         *)
(*   log         the steps each request has run, in order                  *)
(*   raw_response  the completion the comparator received                  *)
(*   failure     the kind of failure (section 7 of the spec) that ended    *)
(*               the request, by the step and cause that raised            *)
(*   written     per location, the builds persisted there, in order        *)
(*   text, chunks, phase   the splitter on its own (SpecChunk)             *)
(***************************************************************************)
VARIABLES environ, pc, files, frame, response, store, log, raw_response,
          failure, written, text, chunks, phase

vars == <<environ, pc, files, frame, response, store, log, raw_response,
          failure, written, text, chunks, phase>>
chunkVars == <<text, chunks, phase>>
pipeVars == <<environ, pc, files, frame, response, store, log, raw_response,
              failure, written>>

\* the module-level settings read at import (main.py:23-25)
AZURE_OPENAI_KEY == "AZURE_OPENAI_API_KEY" \in environ
AZURE_OPENAI_ENDPOINT == "AZURE_OPENAI_ENDPOINT" \in environ
AZURE_DEPLOYMENT == "AZURE_OPENAI_CHAT_DEPLOYMENT_NAME" \in environ

\* all([AZURE_OPENAI_KEY, AZURE_OPENAI_ENDPOINT, AZURE_DEPLOYMENT])
ConfigPresent == AZURE_OPENAI_KEY /\ AZURE_OPENAI_ENDPOINT /\ AZURE_DEPLOYMENT

\* AzureChatOpenAI(openai_api_version=os.getenv("AZURE_OPENAI_API_VERSION"), ...)
ChatClientBuilds == "AZURE_OPENAI_API_VERSION" \in environ

PipeInit ==
    /\ environ \in SUBSET AllSettings
    /\ pc = [r \in Requests |-> "idle"]
    /\ files = [r \in Requests |-> [rfp |-> NoUpload, proposal |-> NoUpload]]
    /\ frame = [r \in Requests |-> NoFrame]
    /\ response = [r \in Requests |-> NoResponse]
    /\ store = [l \in Locations |-> <<>>]
    /\ log = [r \in Requests |-> <<>>]
    /\ raw_response = [r \in Requests |-> [json |-> FALSE, value |-> <<>>]]
    /\ failure = [r \in Requests |-> "none"]
    /\ written = [l \in Locations |-> <<>>]

ChunkIdle == text = <<>> /\ chunks = <<>> /\ phase = "off"

Init == PipeInit /\ ChunkIdle

\* the except clauses of analyze: the request ends with the error response
Raise(r, step, e, kind) ==
    /\ response' = [response EXCEPT ![r] = HandleException(e)]
    /\ pc' = [pc EXCEPT ![r] = PcAfterRaise(step)]
    /\ failure' = [failure EXCEPT ![r] = kind]

Ran(r, step) == log' = [log EXCEPT ![r] = Append(@, step)]

DocsField(side) == IF side = "rfp" THEN "rfp_docs" ELSE "proposal_docs"
DbField(side) == IF side = "rfp" THEN "rfp_db" ELSE "proposal_db"
ContentField(side) == IF side = "rfp" THEN "rfp_content" ELSE "proposal_content"
Query(side) == IF side = "rfp" THEN RFP_QUERY ELSE PROPOSAL_QUERY
NextStep(step) ==
    LET i == CHOOSE j \in 1..Len(StepOrder) : StepOrder[j] = step
    IN  StepOrder[i + 1]

\* analyze, lines 149-151: the event loop starts the request and the settings
\* are checked
Begin(r) ==
    /\ pc[r] = "idle"
    /\ \A q \in Requests : q < r => pc[q] = "done"
    /\ \E f \in RfpUploads, g \in ProposalUploads :
          files' = [files EXCEPT ![r] = [rfp |-> f, proposal |-> g]]
    /\ IF ConfigPresent
       THEN /\ pc' = [pc EXCEPT ![r] = "load_rfp"]
            /\ UNCHANGED <<response, failure>>
       ELSE /\ response' = [response EXCEPT ![r] = ConfigErrorResponse]
            /\ pc' = [pc EXCEPT ![r] = "done"]
            /\ failure' = [failure EXCEPT ![r] = "ConfigError"]
    /\ UNCHANGED <<environ, frame, store, log, raw_response, written, chunkVars>>

\* lines 155 and 159: load_document(file)
LoadDocument(r, side) ==
    LET step == "load_" \o side IN
    /\ pc[r] = step
    /\ Ran(r, step)
    /\ \/ /\ frame' = [frame EXCEPT ![r][DocsField(side)] =
                          load_document(files[r][side].pages)]
          /\ pc' = [pc EXCEPT ![r] = NextStep(step)]
          /\ UNCHANGED <<response, failure>>
       \/ /\ \E e \in LoaderErrors : Raise(r, step, e, "InputError")
          /\ UNCHANGED frame
    /\ UNCHANGED <<environ, files, store, raw_response, written, chunkVars>>

\* lines 156 and 160: create_vector_db(docs, path).  FAISS.from_documents embeds
\* the chunks (and cannot build an index of no chunks); save_local then writes it
CreateVectorDb(r, side) ==
    LET step == "index_" \o side
        docs == frame[r][DocsField(side)]
        path == Path(side, files[r][side].filename)
        db   == create_vector_db(docs, store[path])
    IN
    /\ pc[r] = step
    /\ Ran(r, step)
    /\ \/ /\ docs # <<>>
          /\ frame' = [frame EXCEPT ![r][DbField(side)] = db]
          /\ store' = [store EXCEPT ![path] = save_local(db, store[path])]
          /\ written' = [written EXCEPT ![path] =
                            Append(@, [by |-> r, docs |-> docs, index |-> store'[path]])]
          /\ pc' = [pc EXCEPT ![r] = NextStep(step)]
          /\ UNCHANGED <<response, failure>>
       \/ /\ docs # <<>>
          /\ \E e \in ServiceErrors : Raise(r, step, e, "DependencyError")
          /\ UNCHANGED <<frame, store, written>>
       \/ /\ docs = <<>>
          /\ Raise(r, step, Exc("IndexError", "list index out of range"), "InputError")
          /\ UNCHANGED <<frame, store, written>>
    /\ UNCHANGED <<environ, files, raw_response, chunkVars>>

\* lines 163 and 164: db.similarity_search(query, k=20) on the index this request built
SimilaritySearch(r, side) ==
    LET step == "query_" \o side IN
    /\ pc[r] = step
    /\ Ran(r, step)
    /\ \/ /\ frame' = [frame EXCEPT ![r][ContentField(side)] =
                          similarity_search(frame[r][DbField(side)], Query(side), k)]
          /\ pc' = [pc EXCEPT ![r] = NextStep(step)]
          /\ UNCHANGED <<response, failure>>
       \/ /\ \E e \in ServiceErrors : Raise(r, step, e, "DependencyError")
          /\ UNCHANGED frame
    /\ UNCHANGED <<environ, files, store, raw_response, written, chunkVars>>

\* lines 167-171: genrating_eligbility(rfp_text)
Extract(r) ==
    /\ pc[r] = "extract"
    /\ Ran(r, "extract")
    /\ \/ /\ ChatClientBuilds
          /\ \E out \in ExtractOutputs :
                frame' = [frame EXCEPT ![r].ref_eligibility = out]
          /\ pc' = [pc EXCEPT ![r] = "compare"]
          /\ UNCHANGED <<response, failure>>
       \/ /\ ChatClientBuilds
          /\ \E e \in ServiceErrors : Raise(r, "extract", e, "DependencyError")
          /\ UNCHANGED frame
       \/ /\ ~ChatClientBuilds
          /\ Raise(r, "extract", Exc("ValidationError", "api_version"), "ConfigError")
          /\ UNCHANGED frame
    /\ UNCHANGED <<environ, files, store, raw_response, written, chunkVars>>

\* line 174: analyze_eligibility(ref_eligibility, proposal_text)
Compare(r) ==
    /\ pc[r] = "compare"
    /\ Ran(r, "compare")
    /\ \/ \E raw \in RawResponses :
             /\ raw_response' = [raw_response EXCEPT ![r] = raw]
             /\ IF ParseOk(raw)
                THEN /\ frame' = [frame EXCEPT ![r].analysis = JsonOutputParser_parse(raw)]
                     /\ pc' = [pc EXCEPT ![r] = "respond"]
                     /\ UNCHANGED <<response, failure>>
                ELSE /\ Raise(r, "compare",
                              Exc("OutputParserException", "Invalid json output"),
                              "SchemaValidationError")
                     /\ UNCHANGED frame
       \/ /\ \E e \in ServiceErrors : Raise(r, "compare", e, "DependencyError")
          /\ UNCHANGED <<frame, raw_response>>
    /\ UNCHANGED <<environ, files, store, written, chunkVars>>

\* line 176: return JSONResponse(content=analysis.dict())
Respond(r) ==
    /\ pc[r] = "respond"
    /\ Ran(r, "respond")
    /\ IF HasDictMethod(frame[r].analysis)
       THEN /\ response' = [response EXCEPT ![r] = JSONResponse(frame[r].analysis.value)]
            /\ pc' = [pc EXCEPT ![r] = "done"]
            /\ UNCHANGED failure
       ELSE Raise(r, "respond",
                  Exc("AttributeError", "'dict' object has no attribute 'dict'"),
                  "none")
    /\ UNCHANGED <<environ, files, frame, store, raw_response, written, chunkVars>>

Next ==
    \E r \in Requests :
        \/ Begin(r)
        \/ LoadDocument(r, "rfp")
        \/ CreateVectorDb(r, "rfp")
        \/ LoadDocument(r, "proposal")
        \/ CreateVectorDb(r, "proposal")
        \/ SimilaritySearch(r, "rfp")
        \/ SimilaritySearch(r, "proposal")
        \/ Extract(r)
        \/ Compare(r)
        \/ Respond(r)

Spec == Init /\ [][Next]_vars

(***************************************************************************)
(* The splitter on its own: every text of at most MaxLen characters, split *)
(* with the chunk size scaled down to SmallChunkSize and the overlap       *)
(* load_document sets.                                                     *)
(***************************************************************************)
Texts == UNION {[1..n -> Alphabet] : n \in 0..MaxLen}

ChunkInit ==
    /\ PipeInit
    /\ environ = AllSettings
    /\ text \in Texts
    /\ chunks = <<>>
    /\ phase = "loaded"

Split ==
    /\ phase = "loaded"
    /\ chunks' = split_text(text, SmallChunkSize, chunk_overlap)
    /\ phase' = "split"
    /\ UNCHANGED <<text, pipeVars>>

ChunkNext == Split

SpecChunk == ChunkInit /\ [][ChunkNext]_vars

(***************************************************************************)
(* Properties.                                                             *)
(***************************************************************************)
Done(r) == pc[r] = "done"
Queried(r, side) == frame[r][ContentField(side)] # <<>>
IsPrefix(p, q) == Len(p) <= Len(q) /\ p = SubSeq(q, 1, Len(p))
Last(q) == q[Len(q)]
Count(q, x) == Cardinality({i \in 1..Len(q) : q[i] = x})
Range(q) == {q[i] : i \in 1..Len(q)}
SameContent(p, q) == \A x \in Range(p) \cup Range(q) : Count(p, x) = Count(q, x)
RemoveWhitespace(t) == SelectSeq(t, LAMBDA c : c \notin Whitespace)
FailureKinds == {"ConfigError", "InputError", "DependencyError", "NotFoundError",
                 "SchemaValidationError"}

\* conformance to EligibilityData as the spec states it: every verdict has exactly the
\* required fields and eligibility_met is Yes or No
Conforms(raw) ==
    /\ raw.json
    /\ \A i \in 1..Len(raw.value) :
          /\ DOMAIN raw.value[i] = RequiredFields
          /\ raw.value[i].eligibility_met \in {"Yes", "No"}

OneOutcome(r) ==
    /\ ~Done(r) => response[r] = NoResponse
    /\ Done(r) =>
          /\ response[r].kind \in {"result", "error"}
          /\ response[r].kind = "result" =>
                /\ frame[r].analysis # NoAnalysis
                /\ response[r].content = frame[r].analysis.value
                /\ failure[r] = "none"
          /\ response[r].kind = "error" => response[r].content = <<>>

\* C1: a request that has not finished has returned nothing; a finished request
\* returned either the comparator's whole list of verdicts or one error carrying
\* no verdicts; and an outcome, once returned, is never replaced by another.
C1_OneOutcome ==
    /\ [](\A r \in Requests : OneOutcome(r))
    /\ [][\A r \in Requests : response[r] # NoResponse => response'[r] = response[r]]_vars

\* a request that retrieved from both indexes and then ended with an error
C1_Witness ==
    \E r \in Requests :
        /\ Done(r) /\ response[r].kind = "error"
        /\ Queried(r, "rfp") /\ Queried(r, "proposal")

\* C2: with every setting present and every step returned (the comparison with
\* schema-conformant output), the finished request returned the comparator's result.
C2_SuccessReturnsResult ==
    \A r \in Requests :
        (/\ Done(r)
         /\ environ = AllSettings
         /\ log[r] = StepOrder
         /\ frame[r].analysis # NoAnalysis
         /\ Conforms(raw_response[r]))
        => response[r] = JSONResponse(frame[r].analysis.value)

\* C3: analyze_eligibility returns a value only for a raw response in which every
\* verdict has exactly the three required fields and met is Yes or No, and every
\* verdict of a returned result has met Yes or No.
C3_SchemaStrict ==
    \A r \in Requests :
        /\ frame[r].analysis # NoAnalysis => Conforms(raw_response[r])
        /\ response[r].kind = "result" =>
              \A i \in 1..Len(response[r].content) :
                  response[r].content[i].eligibility_met \in {"Yes", "No"}

\* C4: two requests that failed with different kinds of failure returned
\* different error outcomes.
C4_KindsDistinguished ==
    \A r1, r2 \in Requests :
        (/\ Done(r1) /\ Done(r2)
         /\ failure[r1] \in FailureKinds /\ failure[r2] \in FailureKinds
         /\ failure[r1] # failure[r2])
        => response[r1] # response[r2]

\* C5: when a setting the program reads is absent, a started request runs no
\* step (nothing is parsed, chunked, indexed, embedded or completed for it) and
\* a finished request returned the configuration error.
C5_ConfigCheckedFirst ==
    \A r \in Requests :
        (environ # AllSettings /\ pc[r] # "idle")
        => /\ log[r] = <<>>
           /\ \A l \in Locations : \A i \in 1..Len(written[l]) : written[l][i].by # r
           /\ Done(r) => response[r] = ConfigErrorResponse

StepsInOrder(r) ==
    /\ IsPrefix(log[r], StepOrder)
    /\ pc[r] \in Range(StepOrder) => log[r] \o <<pc[r]>> = SubSeq(StepOrder, 1, Len(log[r]) + 1)
    /\ response[r].kind = "error" => Done(r)
    /\ failure[r] # "none" => Done(r)
    /\ Count(log[r], "extract") <= 1 /\ Count(log[r], "compare") <= 1

\* C6: the steps a request has run are a prefix of load rfp, index rfp, load
\* proposal, index proposal, query rfp, query proposal, extract, compare, respond;
\* a step runs only from the position the previous step's return set; extraction
\* and comparison run at most once; a request that raised is finished, and a
\* finished request runs no further step and writes no further index.
C6_StrictSequence ==
    /\ [](\A r \in Requests : StepsInOrder(r))
    /\ [][\A r \in Requests :
            /\ log'[r] # log[r] => log'[r] = Append(log[r], pc[r])
            /\ Done(r) =>
                  /\ log'[r] = log[r] /\ pc'[r] = "done"
                  /\ \A l \in Locations :
                        written'[l] # written[l] => Last(written'[l]).by # r]_vars

\* a request whose extraction call failed, after the six steps before it
C6_Witness ==
    \E r \in Requests :
        /\ Done(r) /\ failure[r] = "DependencyError"
        /\ log[r] = SubSeq(StepOrder, 1, 7)

C8_IdempotentRebuild ==
    /\ \A l \in Locations : \A i, j \in 1..Len(written[l]) :
          (i < j /\ written[l][i].docs = written[l][j].docs)
          => \A q \in {RFP_QUERY, PROPOSAL_QUERY} :
                SameContent(similarity_search(written[l][i].index, q, k),
                            similarity_search(written[l][j].index, q, k))
    /\ \A r1, r2 \in Requests :
          (files[r1].rfp = files[r2].rfp /\ Queried(r1, "rfp") /\ Queried(r2, "rfp"))
          => SameContent(frame[r1].rfp_content, frame[r2].rfp_content)

\* the same two-chunk RFP was built twice at one location and queried both times
C8_Witness ==
    \E l \in Locations :
        /\ Len(written[l]) = 2
        /\ written[l][1].docs = written[l][2].docs
        /\ Len(written[l][1].docs) = 2
        /\ files[1].rfp = files[2].rfp
        /\ Queried(1, "rfp") /\ Queried(2, "rfp")

\* what each query returns on the index of the chunks of an upload alone
OwnRetrieval ==
    [side \in Sides, pages \in RfpContents \cup ProposalContents |->
        similarity_search(from_documents(load_document(pages)), Query(side), k)]

\* C10: what a request retrieved is what the two queries return on the indexes
\* of the chunks of its own two uploads, whatever is or was persisted.
C10_OwnDocumentsOnly ==
    \A r \in Requests : \A side \in Sides :
        Queried(r, side)
        => frame[r][ContentField(side)] = OwnRetrieval[side, files[r][side].pages]

\* a request retrieved from an RFP uploaded under a name at whose location an
\* earlier request had persisted a different index
C10_Witness ==
    \E r \in Requests : \E l \in Locations :
        /\ Queried(r, "rfp")
        /\ l = Path("rfp", files[r].rfp.filename)
        /\ Len(written[l]) = 2
        /\ written[l][2].by = r
        /\ written[l][1].index # written[l][2].index

ChunksBounded == \A i \in 1..Len(chunks) : Len(chunks[i]) <= SmallChunkSize

\* C9 as stated: every chunk is at most the chunk size, and the chunks
\* concatenated in order are the original text.
C9_ExactReconstruction ==
    phase = "split" => ChunksBounded /\ Flatten(chunks) = text

\* C9 as amended: every chunk is at most the chunk size, and the chunks
\* concatenated in order are the original text once whitespace characters are
\* removed from both.
C9_ReconstructionUpToWhitespace ==
    phase = "split" =>
        /\ ChunksBounded
        /\ RemoveWhitespace(Flatten(chunks)) = RemoveWhitespace(text)

\* a text split into several chunks whose concatenation is not the text
C9_Witness ==
    /\ phase = "split"
    /\ Len(chunks) >= 2
    /\ Flatten(chunks) # text

====
